---- MODULE Spec2Model ----
(***************************************************************************)
(* govend: reconciliation of the manifest vendor/Deps.json with the import *)
(* graph of a Go workspace (save), selective re-resolution (update) and    *)
(* the command line entry point (main).                                    *)
(*                                                                         *)
(* Strings are sequences of one-character strings, so that prefix tests,   *)
(* splitting, sorting and pattern matching are computed as the Go code     *)
(* computes them.                                                          *)
(***************************************************************************)
EXTENDS Integers, Sequences, FiniteSets, TLC

VARIABLES rev, imports, file, vendor, readmeFile, lastOp

vars == <<rev, imports, file, vendor, readmeFile, lastOp>>

(***************************************************************************)
(* Bounds of the model.                                                    *)
(***************************************************************************)
\* highest revision number a repository of the workspace reaches
MaxRev == 2
\* longest argument list handed to save, update or main
MaxArgs == 2
\* longest Deps list of a manifest the model lets update produce
MaxDeps == 3
\* longest list given to a function called on its own
MaxList == 3
\* most values in the output of one `go list` process
MaxStream == 3
\* most entries of loadPacks' result that are recorded
MaxEntries == 5

(***************************************************************************)
(* Strings.                                                                *)
(***************************************************************************)
\* byte value of the characters the model uses (the order of sort.Strings
\* and of Deps.Less is the byte order)
Ord(c) ==
    CASE c = "." -> 46
      [] c = "/" -> 47
      [] c = "A" -> 65
      [] c = "B" -> 66
      [] c = "C" -> 67
      [] c = "D" -> 68
      [] c = "E" -> 69
      [] c = "Q" -> 81
      [] c = "R" -> 82
      [] c = "S" -> 83
      [] c = "X" -> 88
      [] c = "d" -> 100
      [] c = "e" -> 101
      [] c = "n" -> 110
      [] c = "o" -> 111
      [] c = "r" -> 114
      [] c = "v" -> 118

Empty == << >>

\* strings.HasPrefix
HasPrefix(s, p) ==
    /\ Len(p) <= Len(s)
    /\ SubSeq(s, 1, Len(p)) = p

\* strings.HasSuffix
HasSuffix(s, p) ==
    /\ Len(p) <= Len(s)
    /\ SubSeq(s, Len(s) - Len(p) + 1, Len(s)) = p

\* Go's s < t on strings
RECURSIVE StrLess(_, _)
StrLess(s, t) ==
    IF t = Empty THEN FALSE
    ELSE IF s = Empty THEN TRUE
    ELSE IF Head(s) = Head(t) THEN StrLess(Tail(s), Tail(t))
    ELSE Ord(Head(s)) < Ord(Head(t))

\* strings.Split(s, "/")[0]
RECURSIVE FirstSegment(_)
FirstSegment(s) ==
    IF s = Empty \/ Head(s) = "/" THEN Empty
    ELSE <<Head(s)>> \o FirstSegment(Tail(s))

\* the elements of a sequence, as a set
Range(s) == {s[i] : i \in 1..Len(s)}

\* a local variable: x := v, then the rest of the function body
Bind(v, Rest(_)) == Rest(v)

\* the import paths, patterns and names of the model
pC == <<"C">>
pD == <<"D">>
pDA == <<"D", "/", "A">>
pDB == <<"D", "/", "B">>
pE == <<"E">>
pS == <<"S">>
pX == <<"X">>
pDX == <<"D", "X">>
pCQ == <<"C", "/", "Q">>
pCR == <<"C", "/", "R">>
pXD == <<"X", "/", "D">>
DotSlashDots == <<".", "/", ".", ".", ".">>
Dots == <<".", ".", ".">>
DotsA == <<".", ".", ".", "A">>
DSlashDots == <<"D", "/", ".", ".", ".">>
XSlashDots == <<"X", "/", ".", ".", ".">>

(***************************************************************************)
(* Pattern matching (update.go).                                           *)
(***************************************************************************)
\* the characters regexp.QuoteMeta escapes
MetaChars == {"\\", ".", "+", "*", "?", "(", ")", "|", "[", "]", "{", "}", "^", "$"}

\* regexp.QuoteMeta
RECURSIVE QuoteMeta(_)
QuoteMeta(s) ==
    IF s = Empty THEN Empty
    ELSE (IF Head(s) \in MetaChars THEN <<"\\", Head(s)>> ELSE <<Head(s)>>)
         \o QuoteMeta(Tail(s))

QuotedDots == <<"\\", ".", "\\", ".", "\\", ".">>
AnyString == <<".", "*">>
SlashAnyString == <<"/", ".", "*">>
OptSlashAnyString == <<"(", "/", ".", "*", ")", "?">>

\* strings.Replace(re, `\.\.\.`, `.*`, -1)
RECURSIVE ReplaceDots(_)
ReplaceDots(re) ==
    IF re = Empty THEN Empty
    ELSE IF HasPrefix(re, QuotedDots)
         THEN AnyString \o ReplaceDots(SubSeq(re, Len(QuotedDots) + 1, Len(re)))
         ELSE <<Head(re)>> \o ReplaceDots(Tail(re))

\* the regular expression source matchPattern builds from a pattern,
\* without the anchors
PatternRe(pat) ==
    LET re == ReplaceDots(QuoteMeta(pat))
    IN  IF HasSuffix(re, SlashAnyString)
        THEN SubSeq(re, 1, Len(re) - Len(SlashAnyString)) \o OptSlashAnyString
        ELSE re

\* a suffix of name, from position k+1 on
Drop(name, k) == SubSeq(name, k + 1, Len(name))

\* regexp matching of name from its start against the expressions PatternRe
\* produces: escaped characters, plain characters, `.*` and `(/.*)?`.
\* atEnd says whether the expression ends with `$`.
RECURSIVE MatchRe(_, _, _)
MatchRe(re, name, atEnd) ==
    IF re = Empty THEN (atEnd => name = Empty)
    ELSE IF HasPrefix(re, OptSlashAnyString)
    THEN LET rest == Drop(re, Len(OptSlashAnyString))
         IN  \/ MatchRe(rest, name, atEnd)
             \/ /\ name # Empty
                /\ Head(name) = "/"
                /\ \E k \in 1..Len(name) : MatchRe(rest, Drop(name, k), atEnd)
    ELSE IF HasPrefix(re, AnyString)
    THEN \E k \in 0..Len(name) : MatchRe(Drop(re, Len(AnyString)), Drop(name, k), atEnd)
    ELSE IF Head(re) = "\\"
    THEN /\ name # Empty
         /\ Head(name) = re[2]
         /\ MatchRe(Drop(re, 2), Tail(name), atEnd)
    ELSE /\ name # Empty
         /\ Head(name) = Head(re)
         /\ MatchRe(Tail(re), Tail(name), atEnd)

\* matchPattern of update.go: regexp.MustCompile(`^` + re).MatchString(name)
matchPattern(pat, name) == MatchRe(PatternRe(pat), name, FALSE)

\* matchPattern of the godep-derived variant: `^` + re + `$`
matchPatternAnchored(pat, name) == MatchRe(PatternRe(pat), name, TRUE)

\* match of update.go
match(pat, dep) == matchPattern(pat, dep.ImportPath)

(***************************************************************************)
(* The workspace: the packages `go list` knows, their repositories and     *)
(* the faults one run of the tool can meet.                                *)
(***************************************************************************)
\* import paths of the dependency packages of the workspace
DepPkgs == {pD, pDA, pDB, pE}
\* the packages of the project's own repository: C, C/Q which C can import,
\* and C/R which imports C
ProjectPkgs == {pC, pCQ, pCR}
\* all packages: the project's, its possible dependencies, a standard package
Packages == ProjectPkgs \cup {pS} \cup DepPkgs
\* root import path of the repository holding a package (vcs.FromDir)
RepoOf(p) ==
    IF p \in {pD, pDA, pDB} THEN pD ELSE IF p \in ProjectPkgs THEN pC ELSE p
DepRepos == {pD, pE}
\* imports of the dependency packages, of C/Q and C/R, and of the standard
\* package
FixedImports(p) == IF p = pDB THEN {pE, pS} ELSE IF p = pCR THEN {pC} ELSE {}
\* direct imports of package p when the project imports imps
ImportsOf(p, imps) == IF p = pC THEN imps \cup {pS} ELSE FixedImports(p)

\* packages reachable from the set ps (the Deps field `go list` prints)
RECURSIVE Reach(_, _)
Reach(ps, imps) ==
    LET next == ps \cup UNION {ImportsOf(p, imps) : p \in ps}
    IN  IF next = ps THEN ps ELSE Reach(next, imps)

\* a set of strings as a sequence in ascending byte order
RECURSIVE SortSet(_)
SortSet(S) ==
    IF S = {} THEN << >>
    ELSE LET m == CHOOSE x \in S : \A y \in S \ {x} : StrLess(x, y)
         IN  <<m>> \o SortSet(S \ {m})

NoFault == [kind |-> "none", on |-> Empty]
\* what can go wrong in one run: the package lister or `go version` fails,
\* a package has a load error, a directory has no supported VCS, identify
\* fails, the diff prints output (dirty) or the diff command fails
Faults ==
    {NoFault, [kind |-> "golist", on |-> Empty], [kind |-> "goversion", on |-> Empty]}
    \cup [kind : {"pkgerr", "vcs", "identify", "dirty", "diff"}, on : {pD}]

Is(env, kind, on) == env.fault = [kind |-> kind, on |-> on]

Workspace == <<"w">>
GoVersion == "go1.5"

(***************************************************************************)
(* pkgs/pkg.go                                                             *)
(***************************************************************************)
\* the JSON object `go list -e -json` prints for an existing package
PackOf(p, env) ==
    [ImportPath |-> p,
     Dir |-> p,
     Root |-> Workspace,
     Deps |-> SortSet(Reach({p}, env.imports) \ {p}),
     Standard |-> (p = pS),
     TestImports |-> << >>,
     XTestImports |-> << >>,
     Err |-> IF Is(env, "pkgerr", p) THEN "load error" ELSE ""]

\* the object printed for a name that is no package
MissingPack(name) ==
    [ImportPath |-> name, Dir |-> Empty, Root |-> Empty, Deps |-> << >>,
     Standard |-> FALSE, TestImports |-> << >>, XTestImports |-> << >>,
     Err |-> "cannot find package"]

\* whether a name has the wildcard
RECURSIVE HasDots(_)
HasDots(name) ==
    /\ name # Empty
    /\ (HasPrefix(name, Dots) \/ HasDots(Tail(name)))

\* the packages one argument of `go list` names, run in the project's
\* directory: a path relative to it, a wildcard over the workspace, or an
\* import path
GoList(name, env) ==
    IF HasPrefix(name, <<".", "/">>)
    THEN LET pat == pC \o Tail(name)
         IN  SortSet({p \in ProjectPkgs : matchPatternAnchored(pat, p)})
    ELSE IF HasDots(name)
    THEN SortSet({p \in Packages : matchPatternAnchored(name, p)})
    ELSE <<name>>

RECURSIVE GoListAll(_, _)
GoListAll(names, env) ==
    IF names = << >> THEN << >>
    ELSE GoList(Head(names), env) \o GoListAll(Tail(names), env)

\* loadPacks: no names, no packages; the error of the command otherwise
loadPacks(names, env) ==
    IF Len(names) = 0 THEN [a |-> << >>, err |-> FALSE]
    ELSE IF env.fault.kind = "golist" THEN [a |-> << >>, err |-> TRUE]
    ELSE LET ps == GoListAll(names, env)
         IN  [a |-> [i \in 1..Len(ps) |->
                        IF ps[i] \in Packages THEN PackOf(ps[i], env)
                        ELSE MissingPack(ps[i])],
              err |-> FALSE]

(***************************************************************************)
(* vcs/vcs.go                                                              *)
(***************************************************************************)
NoRev == [repo |-> Empty, n |-> 0]

\* vcs.FromDir: the repository root of a directory, or an error
FromDir(dir, env) ==
    [reporoot |-> RepoOf(dir), err |-> Is(env, "vcs", RepoOf(dir))]

\* VCS.Identify: the revision the working tree of dir is at; the project's
\* own repository stays at its first revision
Identify(dir, env) ==
    [id |-> [repo |-> RepoOf(dir),
             n |-> IF RepoOf(dir) \in DOMAIN env.rev THEN env.rev[RepoOf(dir)] ELSE 1],
     err |-> Is(env, "identify", RepoOf(dir))]

\* IsDirty with a fault: the error of the diff command is dropped
IsDirtyOutputOnly(dir, id, env) ==
    LET out == IF Is(env, "dirty", RepoOf(dir)) THEN <<"d">> ELSE Empty
    IN  Len(out) # 0

\* VCS.IsDirty: err != nil || len(out) != 0
IsDirty(dir, id, env) ==
    LET err == Is(env, "diff", RepoOf(dir))
        out == IF Is(env, "dirty", RepoOf(dir)) THEN <<"d">> ELSE Empty
    IN  err \/ Len(out) # 0

\* VCS.Describe: the tag of the revision
Describe(dir, id, env) == id

(***************************************************************************)
(* pkgs: ListDeps and its helpers                                          *)
(***************************************************************************)
\* a Dependency as ListDeps and LoadVCSAndUpdate fill it in
Dependency(path, comment, r, ws, root, dir) ==
    [ImportPath |-> path, Comment |-> comment, Rev |-> r,
     Workspace |-> ws, Root |-> root, Dir |-> dir]

sep == <<"/", "v", "e", "n", "d", "o", "r", "/">>

\* strings.LastIndex, counted from 1; 0 when sub does not occur
LastIndex(s, sub) ==
    LET at == {i \in 1..Len(s) : HasPrefix(Drop(s, i - 1), sub)}
    IN  IF at = {} THEN 0 ELSE CHOOSE i \in at : \A j \in at : j <= i

\* unqualify: the part of an import path after the last /vendor/
unqualify(importPath) ==
    LET i == LastIndex(importPath, sep)
    IN  IF i # 0 THEN Drop(importPath, i - 1 + Len(sep)) ELSE importPath

\* sort.Strings
RECURSIVE InsertString(_, _)
InsertString(x, sorted) ==
    IF sorted = << >> THEN <<x>>
    ELSE IF StrLess(Head(sorted), x) \/ Head(sorted) = x
         THEN <<Head(sorted)>> \o InsertString(x, Tail(sorted))
         ELSE <<x>> \o sorted

RECURSIVE SortStrings(_)
SortStrings(a) ==
    IF a = << >> THEN << >> ELSE InsertString(Head(a), SortStrings(Tail(a)))

\* uniq: drops an element equal to the one kept before it (the empty
\* string at the start as well)
RECURSIVE UniqFrom(_, _)
UniqFrom(a, last) ==
    IF a = << >> THEN << >>
    ELSE IF Head(a) # last THEN <<Head(a)>> \o UniqFrom(Tail(a), Head(a))
    ELSE UniqFrom(Tail(a), last)

uniq(a) == UniqFrom(a, Empty)

\* containsPathPrefix with a fault: only the path itself is contained
containsPathPrefixExact(pats, s) ==
    \E i \in 1..Len(pats) : pats[i] = s

\* containsPathPrefix
containsPathPrefix(pats, s) ==
    \E i \in 1..Len(pats) : pats[i] = s \/ HasPrefix(s, pats[i] \o <<"/">>)

\* first loop of ListDeps: the repository roots of the named packages and
\* the packages they depend on.  In all loops printed holds, for each error
\* passed to log.Println, the package it is about.
RECURSIVE ListRoots(_, _, _)
ListRoots(packs, acc, env) ==
    IF packs = << >> THEN acc
    ELSE LET p == Head(packs)
             v == FromDir(p.Dir, env)
             next ==
                 IF p.Standard THEN acc
                 ELSE IF p.Err # "" \/ v.err
                      THEN [acc EXCEPT !.err1 = "error loading packages",
                                       !.printed = Append(@, p.ImportPath)]
                 ELSE [acc EXCEPT !.seen = Append(@, v.reporoot),
                                  !.path = @ \o p.Deps]
         IN  ListRoots(Tail(packs), next, env)

\* the test imports of the named packages
RECURSIVE TestImportsOf(_)
TestImportsOf(packs) ==
    IF packs = << >> THEN << >>
    ELSE Head(packs).TestImports \o Head(packs).XTestImports \o TestImportsOf(Tail(packs))

\* second loop of ListDeps: the packages the tests import, and their
\* dependencies
RECURSIVE ListTests(_, _)
ListTests(packs, acc) ==
    IF packs = << >> THEN acc
    ELSE LET p == Head(packs)
             next ==
                 IF p.Standard THEN acc
                 ELSE IF p.Err # ""
                      THEN [acc EXCEPT !.err1 = "error loading packages",
                                       !.printed = Append(@, p.ImportPath)]
                 ELSE [acc EXCEPT !.path = Append(@, p.ImportPath) \o p.Deps]
         IN  ListTests(Tail(packs), next)

\* third loop of ListDeps: one Dependency per package that is not below a
\* path seen before
RECURSIVE ListResolve(_, _, _)
ListResolve(packs, acc, env) ==
    IF packs = << >> THEN acc
    ELSE LET pkg == Head(packs)
             v == FromDir(pkg.Dir, env)
             i == Identify(pkg.Dir, env)
             failed == [acc EXCEPT !.err1 = "error loading dependencies",
                                   !.printed = Append(@, pkg.ImportPath)]
             next ==
                 IF pkg.Err # "" THEN failed
                 ELSE IF pkg.Standard THEN acc
                 ELSE IF v.err THEN failed
                 ELSE IF containsPathPrefix(acc.seen, pkg.ImportPath) THEN acc
                 ELSE IF i.err
                      THEN [failed EXCEPT !.seen = Append(@, pkg.ImportPath)]
                 ELSE IF IsDirty(pkg.Dir, i.id, env)
                      THEN [failed EXCEPT !.seen = Append(@, pkg.ImportPath)]
                 ELSE [acc EXCEPT
                         !.seen = Append(@, pkg.ImportPath),
                         !.deps = Append(@, Dependency(pkg.ImportPath,
                                                       Describe(pkg.Dir, i.id, env),
                                                       i.id, pkg.Root, v.reporoot,
                                                       pkg.Dir))]
         IN  ListResolve(Tail(packs), next, env)

NoErr == ""

\* ListDeps: the dependencies of the named packages, and the error
ListDeps(name, env) ==
    Bind(loadPacks(name, env), LAMBDA l1 :
    Bind(ListRoots(l1.a, [seen |-> << >>, path |-> << >>, err1 |-> NoErr,
                          printed |-> << >>], env), LAMBDA a1 :
    Bind(loadPacks(TestImportsOf(l1.a), env), LAMBDA l2 :
    Bind(ListTests(l2.a, a1), LAMBDA a2 :
    Bind(uniq(SortStrings([k \in 1..Len(a2.path) |-> unqualify(a2.path[k])])), LAMBDA path :
    Bind(loadPacks(path, env), LAMBDA l3 :
    Bind(ListResolve(l3.a, [seen |-> a2.seen, deps |-> << >>, err1 |-> a2.err1,
                            printed |-> a2.printed], env),
         LAMBDA a3 :
        IF l1.err \/ l2.err \/ l3.err
        THEN [deps |-> << >>, err |-> "go list failed", printed |-> << >>]
        ELSE [deps |-> a3.deps, err |-> a3.err1, printed |-> a3.printed])))))))

(***************************************************************************)
(* The manifest (vendor/Deps.json) and the vendor tree.                    *)
(***************************************************************************)
\* no file vendor/Deps.json
NoFile ==
    [exists |-> FALSE, ImportPath |-> Empty, GoVersion |-> "", Deps |-> << >>, end |-> ""]

\* Manifest{}
EmptyManifest == [ImportPath |-> Empty, GoVersion |-> "", Deps |-> << >>]

\* json.Decoder.Decode into a Manifest: the fields tagged json:"-" stay empty
Decode(f) ==
    [ImportPath |-> f.ImportPath,
     GoVersion |-> f.GoVersion,
     Deps |-> [i \in 1..Len(f.Deps) |->
                  Dependency(f.Deps[i].ImportPath, f.Deps[i].Comment, f.Deps[i].Rev,
                             Empty, Empty, Empty)]]

\* Deps.Less
Less(a, b) == StrLess(a.ImportPath, b.ImportPath)

RECURSIVE InsertDep(_, _)
InsertDep(x, sorted) ==
    IF sorted = << >> THEN <<x>>
    ELSE IF Less(x, Head(sorted)) THEN <<x>> \o sorted
    ELSE <<Head(sorted)>> \o InsertDep(x, Tail(sorted))

\* sortDeps with a fault: the list is left in the order it has
sortDepsKeepOrder(deps) == deps

\* Manifest.sortDeps: sort.Sort by ImportPath (entries with equal import
\* paths come from one update and are equal in all persisted fields)
RECURSIVE sortDeps(_)
sortDeps(deps) ==
    IF deps = << >> THEN << >> ELSE InsertDep(Head(deps), sortDeps(Tail(deps)))

\* Manifest.WriteTo: the content written, the persisted fields of the
\* sorted dependencies and the newline appended to the JSON text
WriteTo(g) ==
    LET sorted == sortDeps(g.Deps)
    IN  [exists |-> TRUE,
         ImportPath |-> g.ImportPath,
         GoVersion |-> g.GoVersion,
         Deps |-> [i \in 1..Len(sorted) |->
                      [ImportPath |-> sorted[i].ImportPath,
                       Comment |-> sorted[i].Comment,
                       Rev |-> sorted[i].Rev]],
         end |-> "\n"]

\* readCurManifest: an absent file is an empty manifest
readCurManifest(f) ==
    IF ~f.exists THEN [man |-> EmptyManifest, err |-> NoErr]
    ELSE [man |-> Decode(f), err |-> NoErr]

\* ReadManifest: os.Open fails on an absent file
ReadManifest(f) ==
    IF ~f.exists THEN [man |-> EmptyManifest, err |-> "open vendor/Deps.json: no such file"]
    ELSE [man |-> Decode(f), err |-> NoErr]

\* the directories of the vendor tree that can hold vendored source; the
\* content of one is the revision number it was copied at, 0 when absent
VendorDirs == DepPkgs
Absent == 0

\* q is the directory p or lies below it
Under(q, p) == q = p \/ HasPrefix(q, p \o <<"/">>)

\* os.RemoveAll(filepath.Join(srcdir, path))
RemoveAll(tree, path) ==
    [q \in VendorDirs |-> IF Under(q, path) THEN Absent ELSE tree[q]]

(***************************************************************************)
(* save.go                                                                 *)
(***************************************************************************)
\* subDeps with a fault: entries are compared as a whole, so an entry read
\* from the manifest never equals the entry resolved for the same package
RECURSIVE subDepsByValue(_, _)
subDepsByValue(a, b) ==
    IF a = << >> THEN << >>
    ELSE LET da == Head(a)
             dupe == \E j \in 1..Len(b) : da = b[j]
         IN  (IF dupe THEN << >> ELSE <<da>>) \o subDepsByValue(Tail(a), b)

\* subDeps returns a - b, using ImportPath for equality
RECURSIVE subDeps(_, _)
subDeps(a, b) ==
    IF a = << >> THEN << >>
    ELSE LET da == Head(a)
             dupe == \E j \in 1..Len(b) : da.ImportPath = b[j].ImportPath
         IN  (IF dupe THEN << >> ELSE <<da>>) \o subDeps(Tail(a), b)

\* the switch with a fault: the case of the repository root is missing
ConflictAtPrefixOnly(da, db) ==
    IF HasPrefix(db.ImportPath, da.ImportPath \o <<"/">>) THEN da.Rev # db.Rev
    ELSE FALSE

\* the switch of checkForConflicts on one pair
ConflictAt(da, db) ==
    IF HasPrefix(db.ImportPath, da.ImportPath \o <<"/">>) THEN da.Rev # db.Rev
    ELSE IF HasPrefix(da.ImportPath, db.Root \o <<"/">>) THEN da.Rev # db.Rev
    ELSE FALSE

\* checkForConflicts: the error of the first conflicting pair in loop order;
\* text holds the operands of fmt.Errorf, which are da.Rev and db.Rev
checkForConflicts(deps) ==
    LET n == Len(deps)
        bad == {ij \in (1..n) \X (1..n) : ConflictAt(deps[ij[1]], deps[ij[2]])}
        first == CHOOSE ij \in bad :
                    \A kl \in bad : ij[1] < kl[1] \/ (ij[1] = kl[1] /\ ij[2] <= kl[2])
    IN  IF bad = {} THEN [err |-> NoErr, text |-> << >>, pair |-> <<0, 0>>]
        ELSE [err |-> "conflicting revisions",
              text |-> <<[rev |-> deps[first[1]].Rev], [rev |-> deps[first[2]].Rev]>>,
              pair |-> first]

\* removeSrc: the tree after removing the directories of deps, the
\* directories os.RemoveAll was called on (log) and the error.  The loop
\* returns the error of the first os.RemoveAll that fails; a call that fails
\* is taken to leave the tree as it was.
RECURSIVE removeSrc(_, _, _)
removeSrc(tree, deps, env) ==
    IF deps = << >> THEN [tree |-> tree, log |-> << >>, printed |-> << >>, err |-> NoErr]
    ELSE IF Is(env, "remove", Head(deps).ImportPath)
    THEN [tree |-> tree, log |-> <<[ev |-> "remove", path |-> Head(deps).ImportPath]>>,
          printed |-> << >>, err |-> "remove failed"]
    ELSE Bind(removeSrc(RemoveAll(tree, Head(deps).ImportPath), Tail(deps), env), LAMBDA r :
            [r EXCEPT !.log = <<[ev |-> "remove", path |-> Head(deps).ImportPath]>> \o @])

\* the walk of copySrc over one dependency: the old destination is removed,
\* then every directory of the workspace at or below dep.Dir is copied at
\* the content the workspace has; after an os.RemoveAll that fails the old
\* destination is still there, and a directory whose files cannot be
\* copied keeps what it had
CopyOne(tree, dep, env) ==
    LET cleared == IF Is(env, "remove", dep.Dir) THEN tree ELSE RemoveAll(tree, dep.Dir)
    IN  [q \in VendorDirs |->
            IF Under(q, dep.Dir) /\ ~Is(env, "copy", q)
            THEN env.rev[RepoOf(q)] ELSE cleared[q]]

\* the errors copySrc passes to log.Println for one dependency, by path
CopyErrors(dep, env) ==
    (IF Is(env, "remove", dep.Dir) THEN <<dep.Dir>> ELSE << >>)
    \o SortSet({q \in VendorDirs : Under(q, dep.Dir) /\ Is(env, "copy", q)})

\* copySrc: an error is printed, ok is set to false and the loop goes on;
\* the error is returned after the last dependency
RECURSIVE copySrc(_, _, _)
copySrc(tree, deps, env) ==
    IF deps = << >> THEN [tree |-> tree, log |-> << >>, printed |-> << >>, err |-> NoErr]
    ELSE Bind(copySrc(CopyOne(tree, Head(deps), env), Tail(deps), env), LAMBDA r :
         Bind(CopyErrors(Head(deps), env) \o r.printed, LAMBDA printed :
            [tree |-> r.tree,
             log |-> <<[ev |-> "copy", path |-> Head(deps).Dir]>> \o r.log,
             printed |-> printed,
             err |-> IF printed # << >> THEN "error copying source code" ELSE NoErr]))

\* The walk of copySrc over the files of one dependency.  A source tree is
\* its root directory dep.Dir and the paths of its files, each the sequence
\* of names from the root down; a path is a directory when a file lies below
\* it, and the root is always one.
IsDir(t, p) ==
    p = t.root \/ \E f \in t.files : Len(f) > Len(p) /\ SubSeq(f, 1, Len(p)) = p

\* the items of the tree: the root, the directories and the files
Items(t) ==
    {t.root} \cup UNION {{SubSeq(f, 1, k) : k \in Len(t.root)..Len(f)} : f \in t.files}

\* w.Stat().Name(): the last name of the path
Name(p) == p[Len(p)]

\* copyPkgFile with a fault: a file whose name begins with `.` or `_` is
\* passed over like a directory
copyPkgFileByName(t, p) ==
    [skipDir |-> Name(p)[1] \in {".", "_"},
     copied |-> IF IsDir(t, p) \/ Name(p)[1] \in {".", "_"} THEN {} ELSE {p}]

\* copyPkgFile on the item p: SkipDir is called when the name begins with
\* `.` or `_`; a directory returns nil, anything else is copied to the same
\* path below the destination root
copyPkgFile(t, p) ==
    [skipDir |-> Name(p)[1] \in {".", "_"},
     copied |-> IF IsDir(t, p) THEN {} ELSE {p}]

\* w.Step() reaches p: SkipDir was called on none of the directories above
\* it (on a file SkipDir has no effect, and Step sets descend again)
Stepped(t, p) ==
    \A k \in Len(t.root)..(Len(p) - 1) : ~copyPkgFile(t, SubSeq(p, 1, k)).skipDir

\* copySrc, lines 154-161: the paths created below the destination root by
\* the walk of one dependency
WalkFiles(t) ==
    UNION {copyPkgFile(t, p).copied : p \in {q \in Items(t) : Stepped(t, q)}}

\* goVersion
goVersion(env) ==
    IF env.fault.kind = "goversion" THEN [ver |-> "", err |-> "go version failed"]
    ELSE [ver |-> GoVersion, err |-> NoErr]

\* pkgs.ImportPath("."), run in the project's directory
ImportPath(env) ==
    IF env.fault.kind = "golist" THEN [path |-> Empty, err |-> "go list failed"]
    ELSE [path |-> pC, err |-> NoErr]

\* what a run of save or update leaves: its error, the manifest file, the
\* vendor tree, the README flag, the two lists it computed (save: removed
\* and added; update: matched and resolved), the patterns it logged as not
\* in the manifest, and the order of its writes
Outcome(err, f, tree, readme, rem, add, logged, log) ==
    [err |-> err, file |-> f, vendor |-> tree, readme |-> readme,
     rem |-> rem, add |-> add, logged |-> logged, log |-> log]

\* a run that returns the error e before it writes anything
Fail(e, f, tree, readme, logged) ==
    Outcome(e, f, tree, readme, << >>, << >>, logged, << >>)

WriteEvent == [ev |-> "write", path |-> Empty]

\* reconcile with a fault: the new list is the dependencies as resolved now
reconcileRefresh(cur, deps) ==
    [rem |-> subDeps(cur, deps), add |-> subDeps(deps, cur), final |-> deps]

\* save, lines 47-50: what is dropped, what is new, and the new list, the
\* entries kept from the manifest first
reconcile(cur, deps) ==
    Bind(subDeps(cur, deps), LAMBDA rem :
    Bind(subDeps(deps, cur), LAMBDA add :
        [rem |-> rem, add |-> add, final |-> subDeps(cur, rem) \o add]))

\* save up to the conflict check: the manifest to write, or the error
saveResolve(args, env, f) ==
    Bind(IF Len(args) = 0 THEN <<DotSlashDots>> ELSE args, LAMBDA args1 :
    Bind(goVersion(env), LAMBDA ver :
    Bind(readCurManifest(f), LAMBDA cur :
    Bind(ImportPath(env), LAMBDA path :
    Bind(ListDeps(args1, env), LAMBDA listed :
    Bind(reconcile(cur.man.Deps, listed.deps), LAMBDA r :
    Bind(checkForConflicts(r.final), LAMBDA conflict :
        [err |-> IF ver.err # NoErr THEN ver.err
                 ELSE IF cur.err # NoErr THEN cur.err
                 ELSE IF path.err # NoErr THEN path.err
                 ELSE IF listed.err # NoErr THEN listed.err
                 ELSE conflict.err,
         manifest |-> [ImportPath |-> path.path, GoVersion |-> ver.ver, Deps |-> r.final],
         rem |-> r.rem, add |-> r.add])))))))

\* savePersist with a fault: the added dependencies are copied before the
\* removed ones are deleted
savePersistCopyFirst(r, env, tree) ==
    Bind(copySrc(tree, r.add, env), LAMBDA copied :
    Bind(removeSrc(copied.tree, r.rem, env), LAMBDA removed :
        Outcome(IF removed.err # NoErr THEN removed.err ELSE copied.err,
                WriteTo(r.manifest), removed.tree, TRUE, r.rem, r.add,
                << >>, <<WriteEvent>> \o copied.log \o removed.log)))

\* save from the README on: the manifest is written, then the removed
\* dependencies are deleted and the added ones copied
savePersist(r, env, tree) ==
    Bind(removeSrc(tree, r.rem, env), LAMBDA removed :
    Bind(copySrc(removed.tree, r.add, env), LAMBDA copied :
        IF removed.err # NoErr
        THEN Outcome(removed.err, WriteTo(r.manifest), removed.tree, TRUE, r.rem, r.add,
                     << >>, <<WriteEvent>> \o removed.log)
        ELSE Outcome(copied.err, WriteTo(r.manifest), copied.tree, TRUE, r.rem, r.add,
                     << >>, <<WriteEvent>> \o removed.log \o copied.log)))

\* save with a fault: the conflict is reported after the writes
saveWriteFirst(args, env, f, tree, readme) ==
    Bind(saveResolve(args, env, f), LAMBDA r :
        IF r.err = "conflicting revisions"
        THEN [savePersist(r, env, tree) EXCEPT !.err = r.err]
        ELSE IF r.err # NoErr THEN Fail(r.err, f, tree, readme, << >>)
        ELSE savePersist(r, env, tree))

\* save
save(args, env, f, tree, readme) ==
    Bind(saveResolve(args, env, f), LAMBDA r :
        IF r.err # NoErr THEN Fail(r.err, f, tree, readme, << >>)
        ELSE savePersist(r, env, tree))

(***************************************************************************)
(* update.go and pkgs.LoadVCSAndUpdate                                     *)
(***************************************************************************)
\* filterArg with a fault: the argument is matched as it is given
filterArgWhole(arg, deps) ==
    SelectSeq(deps, LAMBDA dep : match(arg, dep))

\* the dependencies one argument selects: the argument is cut to its first
\* path element, then matched
filterArg(arg, deps) ==
    LET top == FirstSegment(arg)
    IN  SelectSeq(deps, LAMBDA dep : match(top, dep))

\* filter with a fault: any argument selects the whole manifest
filterAll(args, deps) ==
    IF args = << >> THEN << >> ELSE deps

\* filter: the matches of every argument, in argument order
RECURSIVE filter(_, _)
filter(args, deps) ==
    IF args = << >> THEN << >>
    ELSE filterArg(Head(args), deps) \o filter(Tail(args), deps)

\* the arguments filter logs as "not in manifest"
notInManifest(args, deps) ==
    LET missed == SelectSeq(args, LAMBDA arg : filterArg(arg, deps) = << >>)
    IN  [k \in 1..Len(missed) |-> FirstSegment(missed[k])]

\* first loop of LoadVCSAndUpdate: each dependency gets its package, its
\* directory and its repository
RECURSIVE LoadCandidates(_, _, _, _)
LoadCandidates(deps, ps, acc, env) ==
    IF deps = << >> THEN acc
    ELSE LET dep == Head(deps)
             found == {k \in 1..Len(ps) : ps[k].ImportPath = dep.ImportPath}
             pkg == ps[CHOOSE k \in found : \A j \in found : k <= j]
             v == FromDir(pkg.Dir, env)
             failed == [acc EXCEPT !.err1 = "error loading dependencies",
                                   !.printed = Append(@, dep.ImportPath)]
             next ==
                 IF found = {} THEN failed
                 ELSE IF pkg.Err # "" THEN failed
                 ELSE IF v.err THEN failed
                 ELSE [acc EXCEPT !.candidates =
                          Append(@, [dep EXCEPT !.Dir = pkg.Dir,
                                                !.Workspace = pkg.Root,
                                                !.Root = v.reporoot])]
         IN  LoadCandidates(Tail(deps), ps, next, env)

\* second loop of LoadVCSAndUpdate: identify, check the tree, take the new
\* revision; a dirty tree ends the loop. The map noupdate is never written,
\* so no candidate is skipped.
RECURSIVE LoadRevisions(_, _, _)
LoadRevisions(candidates, acc, env) ==
    IF candidates = << >> THEN acc
    ELSE LET dep == Head(candidates)
             i == Identify(dep.Dir, env)
             failed == [acc EXCEPT !.err1 = "error loading dependencies",
                                   !.printed = Append(@, dep.ImportPath)]
         IN  IF i.err THEN LoadRevisions(Tail(candidates), failed, env)
             ELSE IF IsDirty(dep.Dir, i.id, env) THEN failed
             ELSE LoadRevisions(
                      Tail(candidates),
                      [acc EXCEPT !.tocopy =
                          Append(@, [dep EXCEPT !.Rev = i.id,
                                                !.Comment = Describe(dep.Dir, i.id, env)])],
                      env)

\* LoadVCSAndUpdate
LoadVCSAndUpdate(deps, env) ==
    Bind(loadPacks([k \in 1..Len(deps) |-> deps[k].ImportPath], env), LAMBDA l :
    Bind(LoadCandidates(deps, l.a, [candidates |-> << >>, err1 |-> NoErr,
                                    printed |-> << >>], env), LAMBDA a1 :
    Bind(LoadRevisions(a1.candidates, [tocopy |-> << >>, err1 |-> NoErr,
                                       printed |-> << >>], env), LAMBDA a2 :
        IF l.err THEN [deps |-> << >>, err |-> "go list failed", printed |-> << >>]
        ELSE IF a1.err1 # NoErr THEN [deps |-> << >>, err |-> a1.err1, printed |-> a1.printed]
        ELSE IF a2.err1 # NoErr THEN [deps |-> << >>, err |-> a2.err1, printed |-> a2.printed]
        ELSE [deps |-> a2.tocopy, err |-> NoErr, printed |-> << >>])))

NoPackages == "no packages can be updated"

\* update up to the check for an empty result: the manifest read, the
\* dependencies filter selects and their new revisions, or the error
updateResolve(args, env, f) ==
    Bind(ReadManifest(f), LAMBDA read :
    Bind(filter(args, read.man.Deps), LAMBDA matched :
    Bind(LoadVCSAndUpdate(matched, env), LAMBDA loaded :
        [err |-> IF read.err # NoErr THEN read.err
                 ELSE IF loaded.err # NoErr THEN loaded.err
                 ELSE IF Len(loaded.deps) = 0 THEN NoPackages
                 ELSE NoErr,
         g |-> read.man, matched |-> matched, deps |-> loaded.deps,
         logged |-> IF read.err # NoErr THEN << >>
                    ELSE notInManifest(args, read.man.Deps)])))

\* updatePersist with a fault: the manifest is written with the updated
\* dependencies alone
updatePersistOnlyUpdated(r, env, tree, readme) ==
    Bind(copySrc(tree, r.deps, env), LAMBDA copied :
        Outcome(copied.err,
                WriteTo([r.g EXCEPT !.Deps = r.deps]),
                copied.tree, readme, r.matched, r.deps, r.logged,
                <<WriteEvent>> \o copied.log))

\* update from os.Create on: the old entries of the matched dependencies
\* are taken out, the new ones put in, the manifest is written and the
\* new revisions are copied
updatePersist(r, env, tree, readme) ==
    Bind(copySrc(tree, r.deps, env), LAMBDA copied :
        Outcome(copied.err,
                WriteTo([r.g EXCEPT !.Deps = subDeps(r.g.Deps, r.matched) \o r.deps]),
                copied.tree, readme, r.matched, r.deps, r.logged,
                <<WriteEvent>> \o copied.log))

\* update with a fault: an argument that selects nothing is an error
updateStrict(args, env, f, tree, readme) ==
    Bind(updateResolve(args, env, f), LAMBDA r :
        IF r.err # NoErr THEN Fail(r.err, f, tree, readme, r.logged)
        ELSE IF r.logged # << >> THEN Fail(NoPackages, f, tree, readme, r.logged)
        ELSE updatePersist(r, env, tree, readme))

\* update
update(args, env, f, tree, readme) ==
    Bind(updateResolve(args, env, f), LAMBDA r :
        IF r.err # NoErr THEN Fail(r.err, f, tree, readme, r.logged)
        ELSE updatePersist(r, env, tree, readme))

(***************************************************************************)
(* main.go                                                                 *)
(***************************************************************************)
\* a phase of main that did not run
Skipped == Fail("skipped", NoFile, [q \in VendorDirs |-> Absent], FALSE, << >>)

\* main: save, then update with the same arguments when -u is given; the
\* process exits with status 1 at the first error
main(shouldUpdate, args, env, f, tree, readme) ==
    Bind(save(args, env, f, tree, readme), LAMBDA s :
        IF s.err # NoErr THEN [s |-> s, u |-> Skipped, exit |-> 1]
        ELSE IF ~shouldUpdate THEN [s |-> s, u |-> Skipped, exit |-> 0]
        ELSE Bind(update(args, env, s.file, s.vendor, s.readme), LAMBDA u :
                [s |-> s, u |-> u, exit |-> IF u.err # NoErr THEN 1 ELSE 0]))

(***************************************************************************)
(* The state machine: the workspace changes (commits, edits of the         *)
(* project's imports) and the tool runs.                                   *)
(***************************************************************************)
\* the strings given as arguments
ArgPool == {pD, pDA, pX, DotsA}
ArgLists == UNION {[1..n -> ArgPool] : n \in 0..MaxArgs}

\* the runs explored: any argument list in a workspace without fault, at
\* most one argument where the run meets a fault, and the patterns for
\* everything, ./... and ..., on their own
Calls ==
    {c \in [args : ArgLists, fault : Faults] :
        c.fault = NoFault \/ Len(c.args) <= 1}
    \cup {[args |-> <<p>>, fault |-> NoFault] : p \in {DotSlashDots, Dots}}

Env(fault) == [rev |-> rev, imports |-> imports, fault |-> fault]

Idle ==
    [op |-> "idle", u |-> FALSE, args |-> << >>, fault |-> NoFault, again |-> FALSE,
     pre |-> [file |-> NoFile, vendor |-> [q \in VendorDirs |-> Absent]],
     s |-> Skipped, t |-> Skipped, exit |-> 0]

Init ==
    /\ rev = [r \in DepRepos |-> 1]
    /\ imports = {}
    /\ file = NoFile
    /\ vendor = [q \in VendorDirs |-> Absent]
    /\ readmeFile = FALSE
    /\ lastOp = Idle

\* a commit in the repository r of the workspace (go get -u, git pull)
Commit(r) ==
    /\ lastOp.op = "idle"
    /\ rev[r] < MaxRev
    /\ rev' = [rev EXCEPT ![r] = @ + 1]
    /\ lastOp' = Idle
    /\ UNCHANGED <<imports, file, vendor, readmeFile>>

\* the project's source is edited: an import is added or dropped
EditImports(p) ==
    /\ lastOp.op = "idle"
    /\ imports' = IF p \in imports THEN imports \ {p} ELSE imports \cup {p}
    /\ lastOp' = Idle
    /\ UNCHANGED <<rev, file, vendor, readmeFile>>

\* the record of the last run is put aside
Forget ==
    /\ lastOp.op # "idle"
    /\ lastOp' = Idle
    /\ UNCHANGED <<rev, imports, file, vendor, readmeFile>>

\* govend [-u] args
Main(shouldUpdate, args, fault, again) ==
    \E r \in {main(shouldUpdate, args, Env(fault), file, vendor, readmeFile)} :
      \E last \in {IF r.u.err = "skipped" THEN r.s ELSE r.u} :
        /\ Len(last.file.Deps) <= MaxDeps
        /\ file' = last.file
        /\ vendor' = last.vendor
        /\ readmeFile' = last.readme
        /\ lastOp' = [op |-> "main", u |-> shouldUpdate, args |-> args, fault |-> fault,
                      again |-> again,
                      pre |-> [file |-> file, vendor |-> vendor],
                      s |-> r.s, t |-> r.u, exit |-> r.exit]
        /\ UNCHANGED <<rev, imports>>

\* a first run of govend
Run(shouldUpdate, args, fault) ==
    /\ lastOp.op = "idle"
    /\ Main(shouldUpdate, args, fault, FALSE)

\* govend is run again without -u, as it was and in the unchanged workspace,
\* after a run that succeeded
RunAgain ==
    /\ lastOp.op = "main"
    /\ ~lastOp.u
    /\ ~lastOp.again
    /\ lastOp.exit = 0
    /\ Main(lastOp.u, lastOp.args, lastOp.fault, TRUE)

\* update(args), called on its own
Update(args, fault) ==
    /\ lastOp.op = "idle"
    /\ \E r \in {update(args, Env(fault), file, vendor, readmeFile)} :
        /\ Len(r.file.Deps) <= MaxDeps
        /\ file' = r.file
        /\ vendor' = r.vendor
        /\ readmeFile' = r.readme
        /\ lastOp' = [op |-> "update", u |-> TRUE, args |-> args, fault |-> fault,
                      again |-> FALSE,
                      pre |-> [file |-> file, vendor |-> vendor],
                      s |-> Skipped, t |-> r,
                      exit |-> IF r.err = NoErr THEN 0 ELSE 1]
        /\ UNCHANGED <<rev, imports>>

Next ==
    \/ \E r \in DepRepos : Commit(r)
    \/ \E p \in DepPkgs : EditImports(p)
    \/ Forget
    \/ \E u \in BOOLEAN, c \in Calls : Run(u, c.args, c.fault)
    \/ RunAgain
    \/ \E c \in Calls : Update(c.args, c.fault)

Spec == Init /\ [][Next]_vars

(***************************************************************************)
(* The functions called on their own, each in the state after              *)
(* construction: lastOp holds the call, its arguments and what it          *)
(* returned.                                                               *)
(***************************************************************************)
\* patterns and names given to matchPattern
MatchPatterns == {pD, pDA, pX, Dots, DotsA, DSlashDots, XSlashDots}
MatchNames == {pD, pDX, pDA, pDB, pXD, pX, pE}

\* dependencies given in lists: three import paths, each at any revision
SampleDeps ==
    {Dependency(p, [repo |-> RepoOf(p), n |-> k], [repo |-> RepoOf(p), n |-> k],
                Empty, Empty, Empty) :
        p \in {pD, pDA, pE}, k \in 1..MaxRev}

SeqsUpTo(S, n) == UNION {[1..k -> S] : k \in 0..n}

\* lists without two entries of one import path
DistinctPaths(deps) ==
    \A i, j \in 1..Len(deps) : i # j => deps[i].ImportPath # deps[j].ImportPath

\* matchPattern(pat, name)
CallMatchPattern(pat, name) ==
    /\ lastOp = Idle
    /\ lastOp' = [op |-> "matchPattern", pat |-> pat, name |-> name,
                  out |-> matchPattern(pat, name)]
    /\ UNCHANGED <<rev, imports, file, vendor, readmeFile>>

\* subDeps(a, b)
CallSubDeps(a, b) ==
    /\ lastOp = Idle
    /\ lastOp' = [op |-> "subDeps", a |-> a, b |-> b, out |-> subDeps(a, b)]
    /\ UNCHANGED <<rev, imports, file, vendor, readmeFile>>

\* g.WriteTo(f) for a manifest in memory; the file is written
CallWriteTo(deps) ==
    /\ lastOp = Idle
    /\ DistinctPaths(deps)
    /\ \E g \in {[ImportPath |-> pC, GoVersion |-> GoVersion, Deps |-> deps]} :
          /\ file' = WriteTo(g)
          /\ lastOp' = [op |-> "WriteTo", g |-> g, out |-> WriteTo(g)]
    /\ UNCHANGED <<rev, imports, vendor, readmeFile>>

\* names of directory entries
nD == <<"D">>
nUD == <<"_", "D">>
nA == <<"A">>
nGo == <<"a">>
nDotFile == <<".", "h">>
nUnderFile == <<"_", "x">>
nDotDir == <<".", "g">>
nUnderDir == <<"_", "o">>

\* the files a dependency's directory can hold below its root
FilesBelow ==
    {<<nGo>>, <<nDotFile>>, <<nUnderFile>>, <<nDotDir, nGo>>, <<nUnderDir, nGo>>,
     <<nA, nGo>>, <<nA, nDotFile>>}

SourceTrees ==
    {[root |-> <<r>>, files |-> {<<r>> \o f : f \in fs}] :
        r \in {nD, nUD}, fs \in SUBSET FilesBelow}

\* resolved dependencies, as ListDeps and LoadVCSAndUpdate return them
ResolvedDeps ==
    {Dependency(p, [repo |-> RepoOf(p), n |-> 1], [repo |-> RepoOf(p), n |-> 1],
                Workspace, RepoOf(p), p) : p \in {pD, pDA, pE}}

\* vendor trees: each directory is absent or holds revision 1
VendorTrees == [VendorDirs -> {Absent, 1}]

\* what can go wrong on disk: os.RemoveAll fails on a directory of the
\* vendor tree, or the files of a directory cannot be copied
IOFaults == {NoFault} \cup [kind : {"remove", "copy"}, on : {pD, pE}]

CallRemoveSrc(tree, deps, fault) ==
    /\ lastOp = Idle
    /\ \E r \in {removeSrc(tree, deps, Env(fault))} :
          /\ vendor' = r.tree
          /\ lastOp' = [op |-> "removeSrc", tree |-> tree, deps |-> deps, fault |-> fault,
                        out |-> r]
    /\ UNCHANGED <<rev, imports, file, readmeFile>>

CallCopySrc(tree, deps, fault) ==
    /\ lastOp = Idle
    /\ \E r \in {copySrc(tree, deps, Env(fault))} :
          /\ vendor' = r.tree
          /\ lastOp' = [op |-> "copySrc", tree |-> tree, deps |-> deps, fault |-> fault,
                        out |-> r]
    /\ UNCHANGED <<rev, imports, file, readmeFile>>

\* the entries checkForConflicts is given: read from the manifest, where
\* Root is not kept, or resolved in the workspace
ConflictDeps ==
    {Dependency(p, [repo |-> RepoOf(p), n |-> k], [repo |-> RepoOf(p), n |-> k],
                Empty, Empty, Empty) : p \in DepPkgs, k \in 1..MaxRev}
    \cup {Dependency(p, [repo |-> RepoOf(p), n |-> k], [repo |-> RepoOf(p), n |-> k],
                     Workspace, RepoOf(p), p) : p \in DepPkgs, k \in 1..MaxRev}

CallCheckForConflicts(deps) ==
    /\ lastOp = Idle
    /\ lastOp' = [op |-> "checkForConflicts", deps |-> deps, out |-> checkForConflicts(deps)]
    /\ UNCHANGED <<rev, imports, file, vendor, readmeFile>>

\* a workspace whose project imports imps, in which fault goes wrong
EnvOf(imps, fault) == [rev |-> rev, imports |-> imps, fault |-> fault]

\* the arguments ListDeps is called with
ListNames == {<<DotSlashDots>>, <<pD>>, <<pDA>>}

CallListDeps(name, imps, fault) ==
    /\ lastOp = Idle
    /\ lastOp' = [op |-> "ListDeps", name |-> name, imps |-> imps, fault |-> fault,
                  out |-> ListDeps(name, EnvOf(imps, fault))]
    /\ UNCHANGED <<rev, imports, file, vendor, readmeFile>>

CallLoadVCSAndUpdate(deps, fault) ==
    /\ lastOp = Idle
    /\ lastOp' = [op |-> "LoadVCSAndUpdate", deps |-> deps, fault |-> fault,
                  out |-> LoadVCSAndUpdate(deps, EnvOf({}, fault))]
    /\ UNCHANGED <<rev, imports, file, vendor, readmeFile>>

\* the arguments save is called with in a project that has no manifest
SaveNames == {<< >>, <<pCR>>, <<pD>>, <<pDB>>}

CallSave(args, imps) ==
    /\ lastOp = Idle
    /\ \E r \in {save(args, EnvOf(imps, NoFault), file, vendor, readmeFile)} :
          /\ file' = r.file
          /\ vendor' = r.vendor
          /\ readmeFile' = r.readme
          /\ lastOp' = [op |-> "save", args |-> args, imps |-> imps, out |-> r]
    /\ UNCHANGED <<rev, imports>>

CallWalkFiles(t) ==
    /\ lastOp = Idle
    /\ lastOp' = [op |-> "WalkFiles", t |-> t, out |-> WalkFiles(t)]
    /\ UNCHANGED <<rev, imports, file, vendor, readmeFile>>

NextFn ==
    \/ \E pat \in MatchPatterns, name \in MatchNames : CallMatchPattern(pat, name)
    \/ \E a \in SeqsUpTo(SampleDeps, MaxList), b \in SeqsUpTo(SampleDeps, MaxList - 1) :
          CallSubDeps(a, b)
    \/ \E deps \in SeqsUpTo(SampleDeps, MaxList) : CallWriteTo(deps)
    \/ \E t \in SourceTrees : CallWalkFiles(t)
    \/ \E args \in SaveNames, imps \in SUBSET (DepPkgs \cup {pCQ}) : CallSave(args, imps)
    \/ \E name \in ListNames, imps \in SUBSET DepPkgs, fault \in Faults :
          CallListDeps(name, imps, fault)
    \/ \E deps \in SeqsUpTo(SampleDeps, MaxList), fault \in Faults :
          CallLoadVCSAndUpdate(deps, fault)
    \/ \E deps \in SeqsUpTo(ConflictDeps, MaxList) : CallCheckForConflicts(deps)
    \/ \E tree \in VendorTrees, deps \in SeqsUpTo(ResolvedDeps, MaxList - 1), fault \in IOFaults :
          CallRemoveSrc(tree, deps, fault)
    \/ \E tree \in VendorTrees, deps \in SeqsUpTo(ResolvedDeps, MaxList - 1), fault \in IOFaults :
          CallCopySrc(tree, deps, fault)

SpecFn == Init /\ [][NextFn]_vars

(***************************************************************************)
(* The decode loop of loadPacks (pkgs/pkg.go), step by step.  The output   *)
(* of the `go list` process is a sequence of values: an object that fits   *)
(* pack ("pack"), a well-formed value that does not ("mistyped"), or       *)
(* malformed JSON ("malformed"); the process has exited, so the pipe ends  *)
(* after the last value.                                                   *)
(***************************************************************************)
Values == {"pack", "mistyped", "malformed"}
Streams == SeqsUpTo(Values, MaxStream)

\* json.Decoder.Decode on a decoder that holds the error derr and has the
\* values rest before it: an error of reading a value is kept in the
\* decoder and returned by every later call; an error of unmarshalling is
\* returned once, the value being consumed
DecodeOne(derr, rest) ==
    IF derr # "" THEN [err |-> derr, derr |-> derr, rest |-> rest]
    ELSE IF rest = << >> THEN [err |-> "EOF", derr |-> "EOF", rest |-> rest]
    ELSE IF Head(rest) = "malformed"
    THEN [err |-> "invalid character", derr |-> "invalid character", rest |-> rest]
    ELSE IF Head(rest) = "mistyped"
    THEN [err |-> "cannot unmarshal", derr |-> "", rest |-> Tail(rest)]
    ELSE [err |-> "", derr |-> "", rest |-> Tail(rest)]

\* loadPacks up to the loop: the process is started
StartLoadPacks(stream) ==
    /\ lastOp = Idle
    /\ lastOp' = [op |-> "loadPacks", pc |-> "decode", stream |-> stream, rest |-> stream,
                  derr |-> "", a |-> << >>, turns |-> 0]
    /\ UNCHANGED <<rev, imports, file, vendor, readmeFile>>

\* one turn of the loop: Decode, break on io.EOF, otherwise append info,
\* with Error.Err set after an error.  Of the entries appended only the
\* first MaxEntries are recorded; turns tells an even turn from an odd one.
DecodeStep ==
    /\ lastOp.op = "loadPacks"
    /\ lastOp.pc = "decode"
    /\ \E d \in {DecodeOne(lastOp.derr, lastOp.rest)} :
          lastOp' = IF d.err = "EOF"
                    THEN [lastOp EXCEPT !.pc = "wait", !.derr = d.derr]
                    ELSE [lastOp EXCEPT
                            !.derr = d.derr,
                            !.rest = d.rest,
                            !.a = IF Len(@) < MaxEntries
                                  THEN Append(@, IF d.err = "" THEN "pack" ELSE "error")
                                  ELSE @,
                            !.turns = 1 - @]
    /\ UNCHANGED <<rev, imports, file, vendor, readmeFile>>

\* cmd.Wait() returns, the process having exited, and loadPacks returns
WaitStep ==
    /\ lastOp.op = "loadPacks"
    /\ lastOp.pc = "wait"
    /\ lastOp' = [lastOp EXCEPT !.pc = "returned"]
    /\ UNCHANGED <<rev, imports, file, vendor, readmeFile>>

NextLoad ==
    \/ \E stream \in Streams : StartLoadPacks(stream)
    \/ DecodeStep
    \/ WaitStep

\* the loop is a sequential program: it takes its next step
SpecLoad == Init /\ [][NextLoad]_vars /\ WF_vars(DecodeStep) /\ WF_vars(WaitStep)

(***************************************************************************)
(* Properties.  lastOp holds the last run: its arguments, the fault it     *)
(* met, the manifest and vendor tree before it (pre), what its save left   *)
(* (s) and what its update left (t).  The workspace does not change while  *)
(* lastOp holds a run, so Env(lastOp.fault) is the workspace of that run.  *)
(***************************************************************************)
SaveRan == lastOp.op = "main"
SaveOk == SaveRan /\ lastOp.s.err = NoErr

\* the desired set of the last save: the dependencies of its arguments
Desired ==
    ListDeps(IF Len(lastOp.args) = 0 THEN <<DotSlashDots>> ELSE lastOp.args,
             Env(lastOp.fault))

PathsOf(deps) == {deps[i].ImportPath : i \in 1..Len(deps)}

\* the entries a manifest file records for an import path
EntriesOf(f, path) == {f.Deps[i] : i \in {k \in 1..Len(f.Deps) : f.Deps[k].ImportPath = path}}

\* a removal or a copy of the log reaches the vendor directory q
Touched(log, q) ==
    \E k \in 1..Len(log) : log[k].ev \in {"remove", "copy"} /\ Under(q, log[k].path)

\* two packages lie in one repository
SameRepo(p, q) == RepoOf(p) = RepoOf(q)

\* C1: when save has succeeded and is run again with the same arguments in
\* the unchanged workspace, the second run succeeds, its lists of removed and
\* added dependencies are empty, it removes and copies nothing under the
\* vendor tree, and the manifest it writes is the manifest the first run wrote.
C1_SaveIdempotent ==
    (lastOp.op = "main" /\ ~lastOp.u /\ lastOp.again) =>
        /\ lastOp.s.err = NoErr
        /\ lastOp.s.rem = << >>
        /\ lastOp.s.add = << >>
        /\ lastOp.s.log = <<WriteEvent>>
        /\ file = lastOp.pre.file
        /\ vendor = lastOp.pre.vendor

\* a second run over a manifest of two dependencies, one of them recorded at
\* a revision the workspace has left
C1_Witness ==
    /\ lastOp.op = "main" /\ ~lastOp.u /\ lastOp.again
    /\ lastOp.s.err = NoErr
    /\ Len(file.Deps) >= 2
    /\ \E i \in 1..Len(file.Deps) : file.Deps[i].Rev.n < rev[file.Deps[i].Rev.repo]

\* C2: after a successful save, every import path recorded in the manifest
\* before the save and present in the desired set has the Rev and Comment it
\* had, whatever revision the workspace is at, and no vendor directory of it
\* is removed, copied or changed.
C2_SaveKeepsRecorded ==
    SaveOk =>
        \A i \in 1..Len(lastOp.pre.file.Deps) :
            LET d == lastOp.pre.file.Deps[i]
            IN  d.ImportPath \in PathsOf(Desired.deps) =>
                  /\ EntriesOf(lastOp.s.file, d.ImportPath)
                        = EntriesOf(lastOp.pre.file, d.ImportPath)
                  /\ \A q \in VendorDirs :
                        Under(q, d.ImportPath) =>
                          /\ lastOp.s.vendor[q] = lastOp.pre.vendor[q]
                          /\ ~Touched(lastOp.s.log, q)

\* a save that adds a dependency and keeps one whose repository has advanced
C2_Witness ==
    /\ SaveOk
    /\ lastOp.s.add # << >>
    /\ \E i \in 1..Len(lastOp.pre.file.Deps) :
          LET d == lastOp.pre.file.Deps[i]
          IN  /\ d.ImportPath \in PathsOf(Desired.deps)
              /\ d.Rev.n < rev[d.Rev.repo]
              /\ lastOp.pre.vendor[d.ImportPath] # Absent

\* a fault of the run lies on a dependency of the project
FaultOnDependency ==
    LET deps == Reach({pC}, imports) \ {pC, pS}
    IN  \/ lastOp.fault.kind = "pkgerr" /\ lastOp.fault.on \in deps
        \/ /\ lastOp.fault.kind \in {"vcs", "identify", "dirty", "diff"}
           /\ \E p \in deps : RepoOf(p) = lastOp.fault.on

\* the validation of the last save failed: the desired set could not be
\* listed or resolved, or the new list has a conflict
ValidationFailed ==
    \/ Desired.err # NoErr
    \/ checkForConflicts(
           reconcile(readCurManifest(lastOp.pre.file).man.Deps, Desired.deps).final).err
         # NoErr

\* C3: when a dependency of the project has a package error, no supported
\* VCS, a failing identify or a dirty tree, resolving fails; when listing or
\* resolving fails or checkForConflicts reports a conflict, save returns an
\* error and leaves the manifest file and the vendor tree as they were; a
\* save that writes has passed validation, writes the manifest first and
\* only then removes and copies.
C3_SaveAllOrNothing ==
    SaveRan =>
        /\ (Len(lastOp.args) = 0 /\ FaultOnDependency) => Desired.err # NoErr
        /\ ValidationFailed =>
              /\ lastOp.s.err # NoErr
              /\ lastOp.s.file = lastOp.pre.file
              /\ lastOp.s.vendor = lastOp.pre.vendor
              /\ lastOp.s.log = << >>
        /\ lastOp.s.log # << >> =>
              /\ ~ValidationFailed
              /\ Head(lastOp.s.log) = WriteEvent
              /\ \A k \in 2..Len(lastOp.s.log) : lastOp.s.log[k].ev \in {"remove", "copy"}

\* a save over a manifest and a vendor tree that are not empty meets a dirty
\* tree in a dependency of the project
C3_Witness ==
    /\ SaveRan
    /\ Len(lastOp.args) = 0
    /\ lastOp.fault.kind = "dirty"
    /\ FaultOnDependency
    /\ lastOp.s.err # NoErr
    /\ lastOp.pre.file.Deps # << >>
    /\ \E q \in VendorDirs : lastOp.pre.vendor[q] # Absent

\* the dependencies the last save keeps from the manifest and the ones it adds
KeptDeps ==
    SelectSeq(readCurManifest(lastOp.pre.file).man.Deps,
              LAMBDA d : d.ImportPath \in PathsOf(Desired.deps))
AddedDeps ==
    SelectSeq(Desired.deps,
              LAMBDA d : d.ImportPath \notin PathsOf(lastOp.pre.file.Deps))

\* pairs of a kept and an added dependency of one repository
KeptAddedPairs ==
    {ij \in (1..Len(KeptDeps)) \X (1..Len(AddedDeps)) :
        SameRepo(KeptDeps[ij[1]].ImportPath, AddedDeps[ij[2]].ImportPath)}

\* C4: when the desired set resolves and the new list of save holds a
\* dependency kept from the manifest and an added dependency of the same
\* repository at a different revision, save fails with the error of
\* conflicting revisions; when every such pair is at one revision, save
\* succeeds and the manifest it writes records both.
C4_ConflictOnReconcile ==
    (SaveRan /\ lastOp.fault = NoFault /\ Desired.err = NoErr /\ KeptAddedPairs # {}) =>
        IF \E ij \in KeptAddedPairs : KeptDeps[ij[1]].Rev # AddedDeps[ij[2]].Rev
        THEN /\ lastOp.s.err = "conflicting revisions"
             /\ lastOp.s.file = lastOp.pre.file
        ELSE /\ lastOp.s.err = NoErr
             /\ \A ij \in KeptAddedPairs :
                   /\ KeptDeps[ij[1]].ImportPath \in PathsOf(lastOp.s.file.Deps)
                   /\ AddedDeps[ij[2]].ImportPath \in PathsOf(lastOp.s.file.Deps)

\* D/A is kept at the revision recorded, D/B is added at a later one
C4_Witness ==
    /\ SaveRan
    /\ lastOp.s.err = "conflicting revisions"
    /\ \E ij \in KeptAddedPairs :
          /\ KeptDeps[ij[1]].ImportPath = pDA
          /\ AddedDeps[ij[2]].ImportPath = pDB
          /\ KeptDeps[ij[1]].Rev.n < AddedDeps[ij[2]].Rev.n

\* C5: in every manifest persisted by a sequence of save and update runs
\* that starts without a manifest, two dependencies whose import paths are
\* parent and child, or that lie in one repository, record the same Rev.
C5_OneRevisionPerRepo ==
    \A i, j \in 1..Len(file.Deps) :
        (\/ Under(file.Deps[j].ImportPath, file.Deps[i].ImportPath)
         \/ SameRepo(file.Deps[i].ImportPath, file.Deps[j].ImportPath))
            => file.Deps[i].Rev = file.Deps[j].Rev

\* the update of the last run: it ran, it succeeded, and what it started from
UpdateRan == lastOp.t.err # "skipped"
UpdateOk == lastOp.t.err = NoErr
UpdatePre ==
    IF lastOp.op = "main"
    THEN [file |-> lastOp.s.file, vendor |-> lastOp.s.vendor]
    ELSE lastOp.pre

\* the import path matches a pattern of the last run as a whole
MatchesPattern(path) ==
    \E k \in 1..Len(lastOp.args) : matchPatternAnchored(lastOp.args[k], path)

\* the import path begins with a match of the first path element of a pattern
Selected(path) ==
    \E k \in 1..Len(lastOp.args) : matchPattern(FirstSegment(lastOp.args[k]), path)

\* the revision the workspace is at for a package
Current(path) == [repo |-> RepoOf(path), n |-> rev[RepoOf(path)]]

\* the manifest after the update records the path, at the current revision
AtCurrent(path) ==
    /\ EntriesOf(lastOp.t.file, path) # {}
    /\ \A e \in EntriesOf(lastOp.t.file, path) : e.Rev = Current(path)

\* the update left the entry of the path and its vendored files as they were
Pinned(path) ==
    /\ EntriesOf(lastOp.t.file, path) = EntriesOf(UpdatePre.file, path)
    /\ \A q \in VendorDirs :
          Under(q, path) =>
            /\ lastOp.t.vendor[q] = UpdatePre.vendor[q]
            /\ ~Touched(lastOp.t.log, q)

\* C6: after a successful update, every dependency of the manifest whose
\* import path matches no pattern has the Rev and Comment it had and its
\* vendored files are not rewritten, and every dependency whose import path
\* matches a pattern is recorded at the revision of the workspace.
C6_UpdatePinsUnmatched ==
    UpdateOk =>
        \A i \in 1..Len(UpdatePre.file.Deps) :
            LET path == UpdatePre.file.Deps[i].ImportPath
            IN  IF MatchesPattern(path) THEN AtCurrent(path) ELSE Pinned(path)

\* C6 as the code has it: after a successful update, every dependency of
\* the manifest that filter does not select (its import path does not begin
\* with a match of the first path element of any pattern) has the Rev and
\* Comment it had and its vendored files are not rewritten, and every
\* dependency filter selects is recorded at the revision of the workspace.
C6_UpdatePinsUnselected ==
    UpdateOk =>
        \A i \in 1..Len(UpdatePre.file.Deps) :
            LET path == UpdatePre.file.Deps[i].ImportPath
            IN  IF Selected(path) THEN AtCurrent(path) ELSE Pinned(path)

\* an update moves a selected dependency to a new revision and leaves alone
\* one that is not selected, though its repository has advanced too
C6_Witness ==
    /\ lastOp.op = "update" /\ UpdateOk
    /\ \E i, j \in 1..Len(lastOp.pre.file.Deps) :
          LET d == lastOp.pre.file.Deps[i]
              e == lastOp.pre.file.Deps[j]
          IN  /\ Selected(d.ImportPath) /\ d.Rev # Current(d.ImportPath)
              /\ ~Selected(e.ImportPath) /\ e.Rev # Current(e.ImportPath)
              /\ vendor[d.ImportPath] = rev[RepoOf(d.ImportPath)]
              /\ vendor[e.ImportPath] = e.Rev.n

\* C7: when a pattern of a successful update names one package recorded in
\* the manifest, every package of the same repository recorded in the
\* manifest is recorded at the current revision of the repository and its
\* vendored tree is copied again.
C7_SiblingsLockstep ==
    UpdateOk =>
        \A k \in 1..Len(lastOp.args) :
            \A i, j \in 1..Len(UpdatePre.file.Deps) :
                LET d == UpdatePre.file.Deps[i]
                    e == UpdatePre.file.Deps[j]
                IN  (lastOp.args[k] = d.ImportPath /\ SameRepo(d.ImportPath, e.ImportPath)) =>
                      /\ AtCurrent(e.ImportPath)
                      /\ \E n \in 1..Len(lastOp.t.log) :
                            lastOp.t.log[n] = [ev |-> "copy", path |-> e.ImportPath]
                      /\ lastOp.t.vendor[e.ImportPath] = rev[RepoOf(e.ImportPath)]

\* update D/A over a manifest that records D/A and D/B at a revision the
\* repository has left
C7_Witness ==
    /\ lastOp.op = "update" /\ UpdateOk
    /\ lastOp.args = <<pDA>>
    /\ \E i, j \in 1..Len(lastOp.pre.file.Deps) :
          /\ lastOp.pre.file.Deps[i].ImportPath = pDA
          /\ lastOp.pre.file.Deps[j].ImportPath = pDB
          /\ lastOp.pre.file.Deps[i].Rev # Current(pDA)
          /\ lastOp.pre.file.Deps[j].Rev # Current(pDB)

\* a dependency the update selects lies in a repository whose tree is dirty
SelectedIsDirty ==
    /\ lastOp.fault.kind \in {"dirty", "diff"}
    /\ \E i \in 1..Len(UpdatePre.file.Deps) :
          /\ Selected(UpdatePre.file.Deps[i].ImportPath)
          /\ RepoOf(UpdatePre.file.Deps[i].ImportPath) = lastOp.fault.on

\* C8: when IsDirty is true for a dependency selected for update, update
\* returns an error, the manifest file is as it was before the call and no
\* vendored file is changed.
C8_DirtyAbort ==
    (UpdateRan /\ SelectedIsDirty) =>
        /\ lastOp.t.err # NoErr
        /\ lastOp.t.file = UpdatePre.file
        /\ lastOp.t.vendor = UpdatePre.vendor
        /\ lastOp.t.log = << >>

\* an update that would have moved a dependency meets its dirty tree
C8_Witness ==
    /\ lastOp.op = "update"
    /\ lastOp.fault.kind = "dirty"
    /\ SelectedIsDirty
    /\ lastOp.t.err # NoErr
    /\ \E i \in 1..Len(file.Deps) :
          /\ Selected(file.Deps[i].ImportPath)
          /\ file.Deps[i].Rev # Current(file.Deps[i].ImportPath)
          /\ vendor[file.Deps[i].ImportPath] = file.Deps[i].Rev.n

\* the pattern selects no dependency of the manifest the update read
Unmatched(arg) ==
    \A i \in 1..Len(UpdatePre.file.Deps) :
        ~match(FirstSegment(arg), UpdatePre.file.Deps[i])

ManifestInSync ==
    PathsOf(lastOp.pre.file.Deps) = PathsOf(ListDeps(<<DotSlashDots>>, Env(NoFault)).deps)

\* C10: a run with -u and patterns that each name a dependency recorded in
\* the manifest, in a workspace without fault whose manifest records the
\* dependencies of the project, exits with status 0; the named dependencies
\* are then recorded at the revision of the workspace, and every dependency
\* the patterns do not select is still in the manifest and in the vendor
\* tree as it was.
C10_UpdateWorkflow ==
    (/\ lastOp.op = "main" /\ lastOp.u
     /\ lastOp.fault = NoFault
     /\ Len(lastOp.args) >= 1
     /\ \A k \in 1..Len(lastOp.args) : lastOp.args[k] \in PathsOf(lastOp.pre.file.Deps)
     /\ ManifestInSync) =>
        /\ lastOp.exit = 0
        /\ \A i \in 1..Len(lastOp.pre.file.Deps) :
              LET path == lastOp.pre.file.Deps[i].ImportPath
              IN  IF \E k \in 1..Len(lastOp.args) : lastOp.args[k] = path
                  THEN /\ EntriesOf(file, path) # {}
                       /\ \A e \in EntriesOf(file, path) : e.Rev = Current(path)
                  ELSE Selected(path) \/
                         (/\ EntriesOf(file, path) = EntriesOf(lastOp.pre.file, path)
                          /\ vendor[path] = lastOp.pre.vendor[path])

\* the last run is update on its own, without fault, over a manifest that
\* records dependencies
UpdateOfManifest ==
    /\ lastOp.op = "update"
    /\ lastOp.fault = NoFault
    /\ lastOp.pre.file.exists
    /\ lastOp.pre.file.Deps # << >>

\* every dependency the manifest recorded is recorded at the revision of
\* the workspace
AllAtCurrent ==
    \A i \in 1..Len(lastOp.pre.file.Deps) : AtCurrent(lastOp.pre.file.Deps[i].ImportPath)

\* C11: update with no pattern, over a manifest that records dependencies,
\* returns no error and records every dependency at the revision of the
\* workspace.
C11_UpdateDefaultsToAll ==
    (UpdateOfManifest /\ lastOp.args = << >>) =>
        /\ lastOp.t.err = NoErr
        /\ AllAtCurrent

\* C12: update(["./..."]), over a manifest that records dependencies,
\* returns no error, records every dependency at the revision of the
\* workspace, and writes the manifest update(["..."]) writes.
C12_DotSlashDotsSelectsAll ==
    (UpdateOfManifest /\ lastOp.args = <<DotSlashDots>>) =>
        /\ lastOp.t.err = NoErr
        /\ AllAtCurrent
        /\ lastOp.t.file
              = update(<<Dots>>, Env(NoFault), lastOp.pre.file, lastOp.pre.vendor,
                       readmeFile).file

\* C13: a pattern without wildcard matches an import path only if the two
\* are identical (D matches neither DX nor D/A), and D/... does not match X/D.
C13_MatchAnchored ==
    lastOp.op = "matchPattern" =>
        /\ ~HasDots(lastOp.pat) => (lastOp.out <=> lastOp.pat = lastOp.name)
        /\ (lastOp.pat = DSlashDots /\ lastOp.name = pXD) => ~lastOp.out

\* C14: a pattern P/... matches the import path P, every import path that
\* begins with P followed by a slash, and no other path.
C14_WildcardSuffix ==
    (/\ lastOp.op = "matchPattern"
     /\ lastOp.pat \in {DSlashDots, XSlashDots}) =>
        LET P == <<Head(lastOp.pat)>>
        IN  lastOp.out <=> (lastOp.name = P \/ HasPrefix(lastOp.name, P \o <<"/">>))

\* C15: subDeps(a, b) is the list of the elements of a whose ImportPath is
\* the ImportPath of no element of b, whatever their Rev and Comment, in the
\* order they have in a.
C15_SubDepsDifference ==
    lastOp.op = "subDeps" =>
        lastOp.out
          = SelectSeq(lastOp.a,
                      LAMBDA d : \A j \in 1..Len(lastOp.b) :
                                    lastOp.b[j].ImportPath # d.ImportPath)

\* of three elements the middle one is dropped, for an entry of b that has
\* its import path at another revision
C15_Witness ==
    /\ lastOp.op = "subDeps"
    /\ Len(lastOp.a) = 3
    /\ lastOp.out = <<lastOp.a[1], lastOp.a[3]>>
    /\ lastOp.a[1].ImportPath # lastOp.a[3].ImportPath
    /\ \E j \in 1..Len(lastOp.b) :
          /\ lastOp.b[j].ImportPath = lastOp.a[2].ImportPath
          /\ lastOp.b[j].Rev # lastOp.a[2].Rev

\* the orders a list can be held in
Orders(deps) ==
    {h \in [1..Len(deps) -> Range(deps)] : Range(h) = Range(deps)}

\* C16: WriteTo writes the dependencies in ascending order of ImportPath and
\* ends with a newline; a manifest that holds the same dependencies, of
\* distinct import paths, in another order is written as the same bytes.
C16_WriteToSorted ==
    lastOp.op = "WriteTo" =>
        /\ \A i, j \in 1..Len(lastOp.out.Deps) :
              i < j => StrLess(lastOp.out.Deps[i].ImportPath, lastOp.out.Deps[j].ImportPath)
        /\ lastOp.out.end = "\n"
        /\ \A h \in Orders(lastOp.g.Deps) : WriteTo([lastOp.g EXCEPT !.Deps = h]) = lastOp.out
        /\ file = lastOp.out

\* a manifest of three dependencies held in descending order
C16_Witness ==
    /\ lastOp.op = "WriteTo"
    /\ Len(lastOp.g.Deps) = 3
    /\ StrLess(lastOp.g.Deps[3].ImportPath, lastOp.g.Deps[2].ImportPath)
    /\ StrLess(lastOp.g.Deps[2].ImportPath, lastOp.g.Deps[1].ImportPath)

\* C17: the manifest on disk never holds two dependencies of the same
\* ImportPath, whatever tool runs wrote it and whatever patterns were given.
C17_ImportPathUnique ==
    file.exists => DistinctPaths(file.Deps)

\* C18: when vendor/Deps.json does not exist, save and update both read an
\* empty manifest without error: save goes on from no recorded dependency,
\* and update, which then selects nothing, ends with "no packages can be
\* updated" and not with the error of opening the file.
C18_AbsentManifestIsEmpty ==
    (lastOp.op \in {"main", "update"} /\ lastOp.fault = NoFault /\ ~lastOp.pre.file.exists) =>
        /\ lastOp.op = "main" =>
              /\ readCurManifest(lastOp.pre.file) = [man |-> EmptyManifest, err |-> NoErr]
              /\ lastOp.s.err # ReadManifest(lastOp.pre.file).err
              /\ lastOp.s.rem = << >>
        /\ lastOp.op = "update" =>
              /\ ReadManifest(lastOp.pre.file) = [man |-> EmptyManifest, err |-> NoErr]
              /\ lastOp.t.err = NoPackages

\* a name begins with `.` or `_`
Hidden(name) == name[1] \in {".", "_"}

FailedOn(deps, fault, copying) ==
    SelectSeq([k \in 1..Len(deps) |-> deps[k].ImportPath],
              LAMBDA p : \/ fault = [kind |-> "remove", on |-> p]
                         \/ copying /\ fault.kind = "copy" /\ Under(fault.on, p))

\* C20: removeSrc and copySrc go through the whole list whatever fails:
\* every dependency of the list is attempted, in order, a dependency on
\* which nothing fails is removed, respectively copied, and an error is
\* returned exactly when something failed.
C20_FailurePolicy ==
    lastOp.op \in {"removeSrc", "copySrc"} =>
        LET copying == lastOp.op = "copySrc"
            failed == FailedOn(lastOp.deps, lastOp.fault, copying)
        IN  /\ [k \in 1..Len(lastOp.out.log) |-> lastOp.out.log[k].path]
                  = [k \in 1..Len(lastOp.deps) |-> lastOp.deps[k].ImportPath]
            /\ (lastOp.out.err # NoErr) <=> (failed # << >>)
            /\ copying => Len(lastOp.out.printed) >= Len(failed)
            /\ \A k \in 1..Len(lastOp.deps) :
                  lastOp.deps[k].ImportPath \notin Range(failed) =>
                      vendor[lastOp.deps[k].ImportPath]
                        = IF copying THEN rev[RepoOf(lastOp.deps[k].ImportPath)] ELSE Absent

\* C21: the error checkForConflicts returns for a conflicting pair holds
\* the import paths of both dependencies and both revisions.
C21_ConflictErrorNamesPair ==
    (lastOp.op = "checkForConflicts" /\ lastOp.out.err # NoErr) =>
        LET da == lastOp.deps[lastOp.out.pair[1]]
            db == lastOp.deps[lastOp.out.pair[2]]
            operands == Range(lastOp.out.text)
        IN  /\ [rev |-> da.Rev] \in operands
            /\ [rev |-> db.Rev] \in operands
            /\ [path |-> da.ImportPath] \in operands
            /\ [path |-> db.ImportPath] \in operands

\* the two entries are of one repository: one path lies below the other, or
\* both lie in the same repository root
Related(da, db) ==
    \/ HasPrefix(db.ImportPath, da.ImportPath \o <<"/">>)
    \/ HasPrefix(da.ImportPath, db.ImportPath \o <<"/">>)
    \/ RepoOf(da.ImportPath) = RepoOf(db.ImportPath)

\* C26: for a list of distinct import paths, checkForConflicts returns an
\* error exactly when two entries, related by path or by repository, have
\* different revisions, whatever the order of the list and whether the
\* entries carry their repository root or were read from the manifest.
C26_ConflictsCompleteAndSound ==
    (lastOp.op = "checkForConflicts" /\ DistinctPaths(lastOp.deps)) =>
        (lastOp.out.err # NoErr
           <=> \E i, j \in 1..Len(lastOp.deps) :
                  /\ i # j
                  /\ Related(lastOp.deps[i], lastOp.deps[j])
                  /\ lastOp.deps[i].Rev # lastOp.deps[j].Rev)

\* the arguments save works on
SaveArgs == IF Len(lastOp.args) = 0 THEN <<DotSlashDots>> ELSE lastOp.args

\* the last save called IsDirty for a package of the repository its fault
\* is on: without the fault the package is one of the resolved dependencies
CleanlinessChecked ==
    /\ SaveRan
    /\ lastOp.fault.kind \in {"dirty", "diff"}
    /\ \E p \in PathsOf(ListDeps(SaveArgs, Env(NoFault)).deps) : RepoOf(p) = lastOp.fault.on

\* C22: when the diff command prints output or fails for a dependency that
\* save resolves, save returns an error, the manifest file and the vendor
\* tree are as they were, nothing is removed or copied; and the manifest
\* of a save that succeeds records no dependency of a repository whose diff
\* printed output or failed.
C22_DirtyIsFatal ==
    /\ CleanlinessChecked =>
          /\ lastOp.s.err # NoErr
          /\ lastOp.s.file = lastOp.pre.file
          /\ lastOp.s.vendor = lastOp.pre.vendor
          /\ lastOp.s.log = << >>
          /\ ~UpdateRan
    /\ (SaveOk /\ lastOp.fault.kind \in {"dirty", "diff"}) =>
          \A i \in 1..Len(lastOp.s.file.Deps) :
              RepoOf(lastOp.s.file.Deps[i].ImportPath) # lastOp.fault.on

\* the diff command fails for a dependency of a project that has a manifest
\* and a vendored copy of it
C22_Witness ==
    /\ CleanlinessChecked
    /\ lastOp.fault.kind = "diff"
    /\ lastOp.pre.file.exists
    /\ lastOp.pre.file.Deps # << >>
    /\ \E q \in VendorDirs : lastOp.pre.vendor[q] # Absent
    /\ lastOp.s.err = "error loading dependencies"

\* the fault makes the resolution of the package fail
Affected(path, fault) ==
    \/ fault.kind = "pkgerr" /\ fault.on = path
    \/ fault.kind \in {"vcs", "identify", "dirty", "diff"} /\ fault.on = RepoOf(path)

\* C23: ListDeps and LoadVCSAndUpdate go on after a dependency has failed:
\* every dependency whose resolution fails is examined and its error is
\* printed, and one error is returned when some resolution failed.  For
\* ListDeps the dependencies are those it returns in the same workspace
\* without the fault.
C23_ResolutionGoesOn ==
    /\ (lastOp.op = "LoadVCSAndUpdate" /\ lastOp.fault.kind # "golist") =>
          LET affected == {q \in PathsOf(lastOp.deps) : Affected(q, lastOp.fault)}
          IN  /\ (lastOp.out.err # NoErr) <=> (affected # {})
              /\ affected \subseteq Range(lastOp.out.printed)
    /\ (lastOp.op = "ListDeps" /\ lastOp.fault.kind # "golist") =>
          LET clean == ListDeps(lastOp.name, EnvOf(lastOp.imps, NoFault)).deps
              affected == {q \in PathsOf(clean) : Affected(q, lastOp.fault)}
          IN  /\ affected # {} => lastOp.out.err # NoErr
              /\ affected \subseteq Range(lastOp.out.printed)
              /\ lastOp.out.err = NoErr => lastOp.out.printed = << >>

\* the packages the arguments of the save name, the standard one left out
RootPkgs(args) ==
    Range(GoListAll(IF Len(args) = 0 THEN <<DotSlashDots>> ELSE args, NoFault)) \ {pS}

\* the package lies in the repository of one of the packages being saved
InOwnRepo(p, args) == \E r \in RootPkgs(args) : Under(p, RepoOf(r))

\* C24: save records and copies no package that lies at or below the
\* repository root of a package being saved; a project that imports its own
\* sub-package C/Q and nothing else, or the package C/R that imports its
\* parent C, get an empty list.
C24_OwnRepoNeverDependency ==
    lastOp.op = "save" =>
        /\ lastOp.out.err = NoErr
        /\ \A p \in Packages :
              InOwnRepo(p, lastOp.args) =>
                  /\ p \notin PathsOf(lastOp.out.file.Deps)
                  /\ \A k \in 1..Len(lastOp.out.log) :
                        lastOp.out.log[k] # [ev |-> "copy", path |-> p]
        /\ (lastOp.args = << >> /\ lastOp.imps = {pCQ}) => lastOp.out.file.Deps = << >>
        /\ (lastOp.args = <<pCR>> /\ lastOp.imps = {}) => lastOp.out.file.Deps = << >>

\* the project imports its sub-package C/Q and the dependency D: D alone is
\* recorded
C24_Witness ==
    /\ lastOp.op = "save"
    /\ lastOp.args = << >>
    /\ lastOp.imps = {pCQ, pD}
    /\ lastOp.out.err = NoErr
    /\ PathsOf(file.Deps) = {pD}

\* no import path of the list is another one of the list or lies below it
NoPathBelowAnother(deps) ==
    \A i, j \in 1..Len(deps) : i # j => ~Under(deps[i].ImportPath, deps[j].ImportPath)

\* C25: the list ListDeps returns, and the manifest save writes from it in
\* a project without manifest, never holds two import paths of which one is
\* the other or lies below it; when the project imports D and D/A and
\* nothing fails, D is returned and D/A is not.
C25_ParentCoversSubPackages ==
    /\ lastOp.op = "ListDeps" =>
          /\ NoPathBelowAnother(lastOp.out.deps)
          /\ (/\ lastOp.fault = NoFault
              /\ lastOp.name = <<DotSlashDots>>
              /\ {pD, pDA} \subseteq lastOp.imps) =>
                 /\ pD \in PathsOf(lastOp.out.deps)
                 /\ pDA \notin PathsOf(lastOp.out.deps)
    /\ lastOp.op = "save" =>
          /\ NoPathBelowAnother(lastOp.out.file.Deps)
          /\ {pD, pDA} \subseteq lastOp.imps /\ lastOp.args = << >> =>
                 /\ pD \in PathsOf(lastOp.out.file.Deps)
                 /\ pDA \notin PathsOf(lastOp.out.file.Deps)
                 /\ lastOp.out.vendor[pDA] # Absent

\* the project imports D, D/A and D/B: D and E are returned
C25_Witness ==
    /\ lastOp.op = "ListDeps"
    /\ lastOp.fault = NoFault
    /\ lastOp.name = <<DotSlashDots>>
    /\ lastOp.imps = {pD, pDA, pDB}
    /\ PathsOf(lastOp.out.deps) = {pD, pE}

\* C27: in a save that succeeds every removal comes before every copy;
\* when a removed dependency's path lies above an added one's (D replaced
\* by D/A), the added dependency is in the vendor tree after the save and
\* the directory of the removed one holds nothing of its own.
C27_RemoveBeforeCopy ==
    SaveOk =>
        /\ \A i, j \in 1..Len(lastOp.s.log) :
              (lastOp.s.log[i].ev = "copy" /\ lastOp.s.log[j].ev = "remove") => j < i
        /\ \A r \in PathsOf(lastOp.s.rem), a \in PathsOf(lastOp.s.add) :
              (Under(a, r) /\ a # r) =>
                  /\ lastOp.s.vendor[a] = rev[RepoOf(a)]
                  /\ lastOp.s.vendor[r] = Absent

\* the manifest recorded D, whose files are vendored; the project now
\* imports D/A instead
C27_Witness ==
    /\ SaveOk
    /\ PathsOf(lastOp.s.rem) = {pD}
    /\ pDA \in PathsOf(lastOp.s.add)
    /\ lastOp.pre.vendor[pD] # Absent
    /\ lastOp.s.vendor[pDA] # Absent
    /\ lastOp.s.vendor[pD] = Absent
    /\ Touched(lastOp.s.log, pD)

\* the places of the manifest file that record the path
PlacesOf(f, path) == {k \in 1..Len(f.Deps) : f.Deps[k].ImportPath = path}

\* C28: after a save that succeeds, the import paths of the manifest are
\* the import paths of the dependencies ListDeps returned; each is recorded
\* once, with the Rev and Comment the manifest had for it before when it
\* had any, and with those ListDeps resolved otherwise.
C28_ManifestIsDesired ==
    SaveOk =>
        /\ PathsOf(lastOp.s.file.Deps) = PathsOf(Desired.deps)
        /\ \A p \in PathsOf(Desired.deps) :
              /\ Cardinality(PlacesOf(lastOp.s.file, p)) = 1
              /\ \A k \in PlacesOf(lastOp.s.file, p) :
                    LET e == lastOp.s.file.Deps[k]
                    IN  IF PlacesOf(lastOp.pre.file, p) # {}
                        THEN \E j \in PlacesOf(lastOp.pre.file, p) :
                                /\ e.Rev = lastOp.pre.file.Deps[j].Rev
                                /\ e.Comment = lastOp.pre.file.Deps[j].Comment
                        ELSE \E j \in 1..Len(Desired.deps) :
                                /\ Desired.deps[j].ImportPath = p
                                /\ e.Rev = Desired.deps[j].Rev
                                /\ e.Comment = Desired.deps[j].Comment

\* C29: an update that succeeds leaves the ImportPath and the GoVersion of
\* the manifest and the set of import paths of its dependencies as they
\* were; an entry differs from the entries the manifest had for its import
\* path in nothing but Rev and Comment, and only when the update selected it.
C29_UpdateChangesOnlyRevisions ==
    (UpdateRan /\ UpdateOk) =>
        /\ lastOp.t.file.ImportPath = UpdatePre.file.ImportPath
        /\ lastOp.t.file.GoVersion = UpdatePre.file.GoVersion
        /\ PathsOf(lastOp.t.file.Deps) = PathsOf(UpdatePre.file.Deps)
        /\ \A k \in 1..Len(lastOp.t.file.Deps) :
              LET e == lastOp.t.file.Deps[k]
              IN  \/ e \in Range(UpdatePre.file.Deps)
                  \/ /\ Selected(e.ImportPath)
                     /\ \E e0 \in EntriesOf(UpdatePre.file, e.ImportPath) :
                           e = [e0 EXCEPT !.Rev = e.Rev, !.Comment = e.Comment]

\* the manifest records D and E; D is updated to a new revision, E stays
C29_Witness ==
    /\ UpdateRan /\ UpdateOk
    /\ PathsOf(UpdatePre.file.Deps) = {pD, pE}
    /\ \E e \in EntriesOf(lastOp.t.file, pD) : e \notin Range(UpdatePre.file.Deps)
    /\ EntriesOf(lastOp.t.file, pE) = EntriesOf(UpdatePre.file, pE)

\* C30: loadPacks, once called on the output of a process that exits,
\* returns, whatever values the output holds.
C30_LoadPacksTerminates ==
    (lastOp.op = "loadPacks") ~> (lastOp.op = "loadPacks" /\ lastOp.pc = "returned")

====
